---- MODULE Spec2Model ----
(***************************************************************************)
(* luksctl: the attach (luks_mount) and detach (luks_umount) protocols,    *)
(* the mapping store (mapper.rs), the cryptsetup gateway (luks.rs) and the *)
(* mount gateway (mount.rs).                                               *)
(*                                                                         *)
(* Strings are sequences of one-character strings, so that the validators  *)
(* and the state-file format are computed as the code computes them.       *)
(***************************************************************************)
EXTENDS Integers, Sequences, FiniteSets, TLC

(***************************************************************************)
(* Bounds of the model                                                     *)
(***************************************************************************)
\* number of invocations of the two binaries in one behaviour
MaxRuns == 3
\* number of entries the live mount table may hold
MaxMounts == 3
\* number of failures injected in one behaviour: failing outcomes of the
\* external operations and of file-system calls, and replacements of a state
\* file by another process
MaxFaults == 1

(***************************************************************************)
(* String primitives (Rust str / Path methods used by the code)            *)
(***************************************************************************)
NUL == "\\0"

contains_char(s, c) == \E i \in 1..Len(s) : s[i] = c

starts_with(s, p) ==
    /\ Len(p) <= Len(s)
    /\ \A i \in 1..Len(p) : s[i] = p[i]

contains(s, sub) ==
    \E i \in 0..(Len(s) - Len(sub)) : \A j \in 1..Len(sub) : s[i + j] = sub[j]

DotDot == <<".", ".">>

replace(s, from, to) == [i \in 1..Len(s) |-> IF s[i] = from THEN to ELSE s[i]]

is_absolute(p) == Len(p) >= 1 /\ p[1] = "/"

\* Path::join: an absolute right-hand side replaces the left-hand side
join(dir, name) == IF is_absolute(name) THEN name ELSE dir \o <<"/">> \o name

\* str::strip_prefix
strip_prefix(s, p) ==
    IF starts_with(s, p)
    THEN [some |-> TRUE, v |-> SubSeq(s, Len(p) + 1, Len(s))]
    ELSE [some |-> FALSE, v |-> <<>>]

\* position of the first occurrence of c in s, 0 when there is none
find_char(s, c) ==
    IF contains_char(s, c)
    THEN CHOOSE i \in 1..Len(s) : s[i] = c /\ \A j \in 1..(i - 1) : s[j] # c
    ELSE 0

\* str::splitn(2, c): at most two parts, split at the first c
splitn2(s, c) ==
    LET i == find_char(s, c) IN
    IF i = 0 THEN <<s>>
    ELSE <<SubSeq(s, 1, i - 1), SubSeq(s, i + 1, Len(s))>>

\* str::split(c): every part, empty ones included
RECURSIVE split(_, _)
split(s, c) ==
    LET i == find_char(s, c) IN
    IF i = 0 THEN <<s>>
    ELSE <<SubSeq(s, 1, i - 1)>> \o split(SubSeq(s, i + 1, Len(s)), c)

WhiteSpace == {" ", "\t", "\n", "\r"}

\* str::trim
RECURSIVE trim(_)
trim(s) ==
    IF s = <<>> THEN s
    ELSE IF s[1] \in WhiteSpace THEN trim(Tail(s))
    ELSE IF s[Len(s)] \in WhiteSpace THEN trim(SubSeq(s, 1, Len(s) - 1))
    ELSE s

\* [String]::join(sep)
RECURSIVE join_str(_, _)
join_str(parts, sep) ==
    IF parts = <<>> THEN <<>>
    ELSE IF Len(parts) = 1 THEN parts[1]
    ELSE parts[1] \o sep \o join_str(Tail(parts), sep)

UpperChars == <<"A", "B", "C", "D", "E", "F", "G", "H", "I", "J", "K", "L", "M",
                "N", "O", "P", "Q", "R", "S", "T", "U", "V", "W", "X", "Y", "Z">>
LowerChars == <<"a", "b", "c", "d", "e", "f", "g", "h", "i", "j", "k", "l", "m",
                "n", "o", "p", "q", "r", "s", "t", "u", "v", "w", "x", "y", "z">>

\* str::to_lowercase
to_lowercase(s) ==
    [i \in 1..Len(s) |->
        IF \E k \in 1..26 : UpperChars[k] = s[i]
        THEN LowerChars[CHOOSE k \in 1..26 : UpperChars[k] = s[i]]
        ELSE s[i]]

Some(x) == [some |-> TRUE, v |-> x]
None == [some |-> FALSE, v |-> <<>>]

Ok(x) == [ok |-> TRUE, err |-> "", v |-> x]
Err(e) == [ok |-> FALSE, err |-> e, v |-> <<>>]

(***************************************************************************)
(* Program constants                                                       *)
(***************************************************************************)
LUKS_PREFIX == <<"l", "u", "k", "s", "-">>
MAPPER_DIR == <<"/", "d", "e", "v", "/", "m", "a", "p", "p", "e", "r">>
MAPPER_STATE_DIR == <<"/", "r", "u", "n", "/", "l", "u", "k", "s", "c", "t", "l">>
DEV_PREFIX == <<"/", "d", "e", "v", "/">>
DEV_MAPPER_PREFIX == <<"/", "d", "e", "v", "/", "m", "a", "p", "p", "e", "r", "/">>
STATE_FILE_PERMS == 384     \* 0o600
STATE_DIR_PERMS == 448      \* 0o700
MAX_ESCAPED_NAME_LEN == 255
MAX_MAPPER_NAME_LEN == 128
MAX_STATE_CONTENT_LEN == 1024
MAX_RETRIES == 10
ALLOWED_MAPPER_CHARS ==
    {"a", "b", "c", "d", "e", "f", "g", "h", "i", "j", "k", "l", "m", "n", "o",
     "p", "q", "r", "s", "t", "u", "v", "w", "x", "y", "z", "A", "B", "C", "D",
     "E", "F", "G", "H", "I", "J", "K", "L", "M", "N", "O", "P", "Q", "R", "S",
     "T", "U", "V", "W", "X", "Y", "Z", "0", "1", "2", "3", "4", "5", "6", "7",
     "8", "9", "-", "_"}

(***************************************************************************)
(* luks.rs: validation of the gateway                                      *)
(***************************************************************************)
\* Path::to_string_lossy: a byte that is not UTF-8 becomes U+FFFD
INVALID_BYTE == "\\xFF"
REPLACEMENT_CHAR == "U+FFFD"
to_string_lossy(p) == replace(p, INVALID_BYTE, REPLACEMENT_CHAR)

\* luks.rs validate_mapper_name
luks_validate_mapper_name(name) ==
    IF name = <<>> THEN Err("NameInvalid")
    ELSE IF Len(name) > MAX_MAPPER_NAME_LEN THEN Err("NameInvalid")
    ELSE IF contains(name, DotDot) \/ contains_char(name, "/") \/ contains_char(name, NUL)
         THEN Err("NameInvalid")
    ELSE IF ~(\A i \in 1..Len(name) : name[i] \in ALLOWED_MAPPER_CHARS)
         THEN Err("NameInvalid")
    ELSE Ok(<<>>)

(***************************************************************************)
(* mapper.rs: names, escaping and the mapping store                        *)
(***************************************************************************)
\* generate_mapper_name with the braced form of the UUID
generate_mapper_name_Braced(uuid) == LUKS_PREFIX \o <<"{">> \o uuid \o <<"}">>

\* mapper.rs generate_mapper_name: format!("luks-{}", uuid)
generate_mapper_name(uuid) == LUKS_PREFIX \o uuid

get_mapper_path(mapper_name) == join(MAPPER_DIR, mapper_name)

escape_mount_path(mount_point) ==
    LET path_str == to_string_lossy(mount_point)
        escaped == replace(path_str, "/", "_")
    IN  IF contains_char(path_str, NUL) THEN Err("PathInvalid")
        ELSE IF Len(escaped) > MAX_ESCAPED_NAME_LEN THEN Err("NameTooLong")
        ELSE IF starts_with(escaped, <<".">>) \/ contains(escaped, DotDot)
             THEN Err("TraversalDetected")
        ELSE Ok(escaped)

\* mapper.rs validate_mapper_name
mapper_validate_mapper_name(name) ==
    IF name = <<>> \/ Len(name) > 128 THEN Err("NameInvalid")
    ELSE IF ~starts_with(name, LUKS_PREFIX) THEN Err("NameNotOwned")
    ELSE IF contains_char(name, "/") \/ contains_char(name, NUL) \/ contains(name, DotDot)
         THEN Err("NameInvalid")
    ELSE Ok(<<>>)

(* The state directory: dir is the directory itself, files maps the names   *)
(* that exist in it to what is there.  A symlink carries the existence,     *)
(* content and mode of the file it points to.                               *)
RegularFile(content, mode) ==
    [kind |-> "file", content |-> content, mode |-> mode, target_exists |-> TRUE]
SymLink(target_exists, content, mode) ==
    [kind |-> "symlink", content |-> content, mode |-> mode, target_exists |-> target_exists]
Directory(mode) ==
    [kind |-> "dir", content |-> <<>>, mode |-> mode, target_exists |-> TRUE]

EmptyStateDir == [exists |-> FALSE, mode |-> 0, files |-> <<>>]

\* Path::exists follows symbolic links
file_exists(fs, key) ==
    /\ fs.exists
    /\ key \in DOMAIN fs.files
    /\ (fs.files[key].kind = "symlink" => fs.files[key].target_exists)

\* fs::symlink_metadata(..).is_file() does not follow them
is_regular_file(fs, key) ==
    /\ fs.exists
    /\ key \in DOMAIN fs.files
    /\ fs.files[key].kind = "file"

WithFile(fs, key, rec) ==
    [fs EXCEPT !.files = [k \in (DOMAIN fs.files) \cup {key} |->
                              IF k = key THEN rec ELSE fs.files[k]]]
WithoutFile(fs, key) ==
    [fs EXCEPT !.files = [k \in (DOMAIN fs.files) \ {key} |-> fs.files[k]]]

\* the system call of store_mount_mapping that fails, if it is reached
StoreIo == {"ok", "mkdir", "chmod", "open", "write", "sync"}

\* OpenOptions write+create+truncate+mode(0600): follows a symbolic link,
\* the mode is applied only to a file the call creates
open_truncate(fs, key) ==
    IF key \notin DOMAIN fs.files
    THEN Ok(WithFile(fs, key, RegularFile(<<>>, STATE_FILE_PERMS)))
    ELSE LET f == fs.files[key] IN
         IF f.kind = "dir" THEN Err("PersistenceFailed")
         ELSE IF f.kind = "symlink"
              THEN Ok(WithFile(fs, key,
                       SymLink(TRUE, <<>>, IF f.target_exists THEN f.mode ELSE STATE_FILE_PERMS)))
         ELSE Ok(WithFile(fs, key, RegularFile(<<>>, f.mode)))

write_content(fs, key, content) ==
    WithFile(fs, key, [fs.files[key] EXCEPT !.content = content])

\* mapper.rs store_mount_mapping: the result and the state directory after it
store_mount_mapping(fs, mount_point, mapper_name, device, io) ==
    LET escaped == escape_mount_path(mount_point)
        fs1 == IF fs.exists THEN fs
               ELSE [exists |-> TRUE,
                     mode |-> IF io = "chmod" THEN 493 ELSE STATE_DIR_PERMS,
                     files |-> <<>>]
        content == mapper_name \o <<":">> \o to_string_lossy(device)
        opened == open_truncate(fs1, escaped.v)
    IN  IF ~mapper_validate_mapper_name(mapper_name).ok
        THEN [res |-> mapper_validate_mapper_name(mapper_name), fs |-> fs]
        ELSE IF ~escaped.ok THEN [res |-> escaped, fs |-> fs]
        ELSE IF ~fs.exists /\ io = "mkdir" THEN [res |-> Err("PersistenceFailed"), fs |-> fs]
        ELSE IF ~fs.exists /\ io = "chmod" THEN [res |-> Err("PersistenceFailed"), fs |-> fs1]
        ELSE IF io = "open" \/ ~opened.ok THEN [res |-> Err("PersistenceFailed"), fs |-> fs1]
        ELSE IF io = "write" THEN [res |-> Err("PersistenceFailed"), fs |-> opened.v]
        ELSE IF io = "sync"
             THEN [res |-> Err("PersistenceFailed"),
                   fs |-> write_content(opened.v, escaped.v, content)]
        ELSE [res |-> Ok(<<>>), fs |-> write_content(opened.v, escaped.v, content)]

\* the system call of get_mount_mapping / remove_mount_mapping that fails
ReadIo == {"ok", "metadata", "read"}
RemoveIo == {"ok", "metadata", "unlink"}

\* get_mount_mapping that reports a content without two fields as an error
get_mount_mapping_ErrOnMalformed(fs, mount_point, io) ==
    LET escaped == escape_mount_path(mount_point)
        content == fs.files[escaped.v].content
        parts == split(content, ":")
    IN  IF ~escaped.ok THEN escaped
        ELSE IF ~file_exists(fs, escaped.v) THEN Ok(None)
        ELSE IF io = "metadata" THEN Err("PersistenceFailed")
        ELSE IF ~is_regular_file(fs, escaped.v) THEN Err("TamperDetected")
        ELSE IF io = "read" THEN Err("PersistenceFailed")
        ELSE IF Len(content) > MAX_STATE_CONTENT_LEN THEN Err("RecordTooLarge")
        ELSE IF Len(parts) # 2 THEN Err("InvalidFormat")
        ELSE IF ~mapper_validate_mapper_name(parts[1]).ok
             THEN mapper_validate_mapper_name(parts[1])
        ELSE Ok(Some([name |-> parts[1], device |-> parts[2]]))

\* mapper.rs get_mount_mapping: Ok(Some((name, device))), Ok(None) or Err
get_mount_mapping(fs, mount_point, io) ==
    LET escaped == escape_mount_path(mount_point)
        content == fs.files[escaped.v].content
        parts == splitn2(content, ":")
    IN  IF ~escaped.ok THEN escaped
        ELSE IF ~file_exists(fs, escaped.v) THEN Ok(None)
        ELSE IF io = "metadata" THEN Err("PersistenceFailed")
        ELSE IF ~is_regular_file(fs, escaped.v) THEN Err("TamperDetected")
        ELSE IF io = "read" THEN Err("PersistenceFailed")
        ELSE IF Len(content) > MAX_STATE_CONTENT_LEN THEN Err("RecordTooLarge")
        ELSE IF Len(parts) # 2 THEN Ok(None)
        ELSE IF ~mapper_validate_mapper_name(parts[1]).ok
             THEN mapper_validate_mapper_name(parts[1])
        ELSE Ok(Some([name |-> parts[1], device |-> parts[2]]))

\* remove_mount_mapping that calls remove_file without looking for the file
remove_mount_mapping_FailIfAbsent(fs, mount_point, io) ==
    LET escaped == escape_mount_path(mount_point) IN
    IF ~escaped.ok THEN [res |-> escaped, fs |-> fs]
    ELSE IF ~file_exists(fs, escaped.v) THEN [res |-> Err("PersistenceFailed"), fs |-> fs]
    ELSE IF io = "metadata" THEN [res |-> Err("PersistenceFailed"), fs |-> fs]
    ELSE IF ~is_regular_file(fs, escaped.v) THEN [res |-> Err("TamperDetected"), fs |-> fs]
    ELSE IF io = "unlink" THEN [res |-> Err("PersistenceFailed"), fs |-> fs]
    ELSE [res |-> Ok(<<>>), fs |-> WithoutFile(fs, escaped.v)]

\* mapper.rs remove_mount_mapping: the result and the state directory after it
remove_mount_mapping(fs, mount_point, io) ==
    LET escaped == escape_mount_path(mount_point) IN
    IF ~escaped.ok THEN [res |-> escaped, fs |-> fs]
    ELSE IF ~file_exists(fs, escaped.v) THEN [res |-> Ok(<<>>), fs |-> fs]
    ELSE IF io = "metadata" THEN [res |-> Err("PersistenceFailed"), fs |-> fs]
    ELSE IF ~is_regular_file(fs, escaped.v) THEN [res |-> Err("TamperDetected"), fs |-> fs]
    ELSE IF io = "unlink" THEN [res |-> Err("PersistenceFailed"), fs |-> fs]
    ELSE [res |-> Ok(<<>>), fs |-> WithoutFile(fs, escaped.v)]

(***************************************************************************)
(* mount.rs: validation of the mount gateway                               *)
(***************************************************************************)
ALLOWED_FS_TYPES ==
    {<<"e", "x", "t", "2">>,
     <<"e", "x", "t", "3">>,
     <<"e", "x", "t", "4">>,
     <<"x", "f", "s">>,
     <<"b", "t", "r", "f", "s">>,
     <<"f", "2", "f", "s">>,
     <<"n", "t", "f", "s">>,
     <<"n", "t", "f", "s", "3">>,
     <<"v", "f", "a", "t">>,
     <<"e", "x", "f", "a", "t">>,
     <<"i", "s", "o", "9", "6", "6", "0">>,
     <<"u", "d", "f">>,
     <<"h", "f", "s", "p", "l", "u", "s">>,
     <<"j", "f", "s">>,
     <<"r", "e", "i", "s", "e", "r", "f", "s">>}
MAX_FS_TYPE_LEN == 32
MAX_MOUNT_OPTIONS_LEN == 1024
SHELL_METACHARS == {";", "&", "|", "$", "`", "\n", "\r", "\\", "\"", "'"}

validate_fs_type(fs_type) ==
    IF contains_char(fs_type, NUL) \/ contains_char(fs_type, "/") THEN Err("NameInvalid")
    ELSE IF Len(fs_type) > MAX_FS_TYPE_LEN THEN Err("NameInvalid")
    ELSE IF to_lowercase(fs_type) \notin ALLOWED_FS_TYPES THEN Err("UnsupportedFilesystem")
    ELSE Ok(<<>>)

\* the trimmed, non-empty tokens of a comma list, in order
RECURSIVE trimmed_tokens(_)
trimmed_tokens(parts) ==
    IF parts = <<>> THEN <<>>
    ELSE IF trim(parts[1]) = <<>> THEN trimmed_tokens(Tail(parts))
    ELSE <<trim(parts[1])>> \o trimmed_tokens(Tail(parts))

\* validate_mount_options that refuses the options it warns about
validate_mount_options_RejectDangerous(options) ==
    LET opts == trimmed_tokens(split(options, ",")) IN
    IF contains_char(options, NUL) THEN Err("OptionInvalid")
    ELSE IF Len(options) > MAX_MOUNT_OPTIONS_LEN THEN Err("OptionInvalid")
    ELSE IF \E i \in 1..Len(opts) : \E j \in 1..Len(opts[i]) : opts[i][j] \in SHELL_METACHARS
         THEN Err("OptionInjection")
    ELSE IF \E i \in 1..Len(opts) :
                to_lowercase(opts[i]) \in {<<"s", "u", "i", "d">>, <<"d", "e", "v">>,
                                           <<"e", "x", "e", "c">>}
         THEN Err("OptionInvalid")
    ELSE Ok(join_str(opts, <<",">>))

validate_mount_options(options) ==
    LET opts == trimmed_tokens(split(options, ",")) IN
    IF contains_char(options, NUL) THEN Err("OptionInvalid")
    ELSE IF Len(options) > MAX_MOUNT_OPTIONS_LEN THEN Err("OptionInvalid")
    ELSE IF \E i \in 1..Len(opts) : \E j \in 1..Len(opts[i]) : opts[i][j] \in SHELL_METACHARS
         THEN Err("OptionInjection")
    ELSE Ok(join_str(opts, <<",">>))

\* mount_device, lines 171-202: the -o argument and the -t argument
mount_arguments(options) ==
    LET base == <<<<"n", "o", "s", "u", "i", "d">>, <<"n", "o", "d", "e", "v">>>>
        with_ro == IF options.read_only THEN Append(base, <<"r", "o">>) ELSE base
        validated == validate_mount_options(options.options.v)
        mount_opts == IF options.options.some /\ validated.v # <<>>
                      THEN Append(with_ro, validated.v) ELSE with_ro
    IN  IF options.fs_type.some /\ ~validate_fs_type(options.fs_type.v).ok
        THEN validate_fs_type(options.fs_type.v)
        ELSE IF options.options.some /\ ~validated.ok THEN validated
        ELSE Ok([opts |-> join_str(mount_opts, <<",">>), fs_type |-> options.fs_type])

(***************************************************************************)
(* The machine the binaries run on                                         *)
(***************************************************************************)
DevSdb1 == <<"/", "d", "e", "v", "/", "s", "d", "b", "1">>
DevSdc1 == <<"/", "d", "e", "v", "/", "s", "d", "c", "1">>
DevRel == <<"d", "e", "v", "/", "s", "d", "b", "1">>
DevDotDot == <<"/", "d", "e", "v", "/", ".", ".", "/", "s", "d", "b", "1">>
DevTmp == <<"/", "t", "m", "p", "/", "d", "i", "s", "k", ".", "i", "m", "g">>
DevGone == <<"/", "d", "e", "v", "/", "s", "d", "z", "9">>
MntSecure == <<"/", "m", "n", "t", "/", "s", "e", "c", "u", "r", "e">>
MntData == <<"/", "m", "n", "t", "/", "d", "a", "t", "a">>
DevSda2 == <<"/", "d", "e", "v", "/", "s", "d", "a", "2">>
MntLink == <<"/", "m", "n", "t", "/", "l", "i", "n", "k">>
MntRel == <<"m", "n", "t", "/", "s", "e", "c", "u", "r", "e">>
MntDotDot == <<"/", "m", "n", "t", "/", ".", ".", "/", "e", "t", "c">>
MntFile == <<"/", "e", "t", "c", "/", "f", "s", "t", "a", "b">>
MntNew == <<"/", "m", "n", "t", "/", "n", "e", "w">>
\* an existing directory whose path is longer than MAX_ESCAPED_NAME_LEN
MntLong == <<"/", "m", "n", "t", "/">> \o [i \in 1..251 |-> "a"]
FsExt4 == <<"e", "x", "t", "4">>
FsExt9000 == <<"e", "x", "t", "9", "0", "0", "0">>
OptNoatime == <<"n", "o", "a", "t", "i", "m", "e", ",", "u", "i", "d", "=", "1", "0", "0", "0">>
OptInject == <<"r", "o", ",", "e", "x", "e", "c", ";", "r", "m", " ", "-", "r", "f", " ", "/">>
OptSuid == <<"s", "u", "i", "d", ",", " ", "d", "e", "v">>

\* block-special files under /dev, regular files, and one symbolic link;
\* /dev/sda2 is a plain partition that is mounted on /mnt/data
BlockDevices == {DevSdb1, DevSda2, DevSdc1}
PlainFiles == {MntFile, DevTmp}
\* fs::canonicalize: /mnt/link is a symbolic link to /mnt/secure
canonicalize(p) == IF p = MntLink THEN MntSecure ELSE p

\* Path::exists, given the directories and the device-mapper entries
path_exists(p, ds, ns) ==
    \/ canonicalize(p) \in ds
    \/ p \in BlockDevices
    \/ p \in PlainFiles
    \/ \E n \in ns : p = get_mapper_path(n)

is_dir(p, ds) == canonicalize(p) \in ds

\* mapper.rs mapper_exists
mapper_exists(mapper_name, ds, ns) == path_exists(get_mapper_path(mapper_name), ds, ns)

\* luks.rs validate_device_path
validate_device_path(device, ds, ns) ==
    LET path_str == to_string_lossy(device) IN
    IF ~is_absolute(device) THEN Err("PathInvalid")
    ELSE IF contains(path_str, DotDot) THEN Err("PathInvalid")
    ELSE IF ~path_exists(device, ds, ns) THEN Err("NotFound")
    ELSE IF ~starts_with(path_str, DEV_PREFIX) THEN Err("NotADeviceNode")
    ELSE IF device \notin BlockDevices THEN Err("NotADeviceNode")
    ELSE Ok(<<>>)

\* mount.rs validate_device_for_mount
validate_device_for_mount(device, ds, ns) ==
    LET path_str == to_string_lossy(device) IN
    IF ~is_absolute(device) THEN Err("PathInvalid")
    ELSE IF contains_char(path_str, NUL) THEN Err("PathInvalid")
    ELSE IF ~starts_with(path_str, DEV_PREFIX) THEN Err("NotADeviceNode")
    ELSE IF ~path_exists(device, ds, ns) THEN Err("NotFound")
    ELSE Ok(<<>>)

\* mount.rs validate_mount_point
validate_mount_point(mount_point, ds, ns) ==
    LET path_str == to_string_lossy(mount_point) IN
    IF ~is_absolute(mount_point) THEN Err("PathInvalid")
    ELSE IF contains_char(path_str, NUL) THEN Err("PathInvalid")
    ELSE IF contains(path_str, DotDot) THEN Err("PathInvalid")
    ELSE IF ~path_exists(mount_point, ds, ns) THEN Err("NotFound")
    ELSE IF ~is_dir(mount_point, ds) THEN Err("NotADirectory")
    ELSE Ok(<<>>)

\* what mount_device does before it runs mount(8): Err, or Ok(arguments)
mount_device_checked(device, mount_point, options, ds, ns) ==
    IF ~validate_device_for_mount(device, ds, ns).ok
    THEN validate_device_for_mount(device, ds, ns)
    ELSE IF ~validate_mount_point(mount_point, ds, ns).ok
         THEN validate_mount_point(mount_point, ds, ns)
    ELSE mount_arguments(options)

\* the live mount table, in /proc/mounts order
MountEntry(source, target) == [source |-> source, target |-> target]

\* mount.rs is_mounted
is_mounted(path, table) ==
    \E i \in 1..Len(table) : canonicalize(table[i].target) = canonicalize(path)

\* mapper.rs find_mapper_by_mount_point: the first acceptable entry, or None
entry_mapper_name(entry, mount_point) ==
    LET stripped == strip_prefix(entry.source, DEV_MAPPER_PREFIX) IN
    IF /\ canonicalize(entry.target) = canonicalize(mount_point)
       /\ stripped.some
       /\ starts_with(stripped.v, LUKS_PREFIX)
       /\ ~contains_char(stripped.v, "/")
       /\ ~contains_char(stripped.v, NUL)
    THEN Some(stripped.v)
    ELSE None

\* find_mapper_by_mount_point that keeps the last acceptable entry
find_mapper_by_mount_point_Last(mount_point, table) ==
    IF \E i \in 1..Len(table) : entry_mapper_name(table[i], mount_point).some
    THEN entry_mapper_name(
             table[CHOOSE i \in 1..Len(table) :
                       /\ entry_mapper_name(table[i], mount_point).some
                       /\ \A j \in (i + 1)..Len(table) :
                              ~entry_mapper_name(table[j], mount_point).some],
             mount_point)
    ELSE None

find_mapper_by_mount_point(mount_point, table) ==
    IF \E i \in 1..Len(table) : entry_mapper_name(table[i], mount_point).some
    THEN entry_mapper_name(
             table[CHOOSE i \in 1..Len(table) :
                       /\ entry_mapper_name(table[i], mount_point).some
                       /\ \A j \in 1..(i - 1) : ~entry_mapper_name(table[j], mount_point).some],
             mount_point)
    ELSE None

\* umount(8) detaches the topmost mount on the target
top_mount(target, table) ==
    CHOOSE i \in 1..Len(table) :
        /\ table[i].target = canonicalize(target)
        /\ \A j \in (i + 1)..Len(table) : table[j].target # canonicalize(target)

without_entry(table, i) == SubSeq(table, 1, i - 1) \o SubSeq(table, i + 1, Len(table))

(***************************************************************************)
(* Requests of the command line                                            *)
(***************************************************************************)
MaxUuids == 2
HexDigits == <<"1", "2", "3", "4", "5", "6", "7", "8", "9", "a", "b", "c", "d", "e", "f">>
\* the hyphenated form of a version-4 UUID; the last digit tells them apart
UuidOf(i) ==
    <<"6", "f", "1", "c", "2", "a", "3", "4", "-", "9", "b", "7", "e", "-",
      "4", "c", "1", "d", "-", "8", "a", "5", "5", "-",
      "0", "e", "3", "f", "9", "d", "2", "b", "7", "c", "8">> \o <<HexDigits[i]>>
Uuids == {UuidOf(i) : i \in 1..MaxUuids}

AttachRequest(root, device, mount_point, mkdir, ro, fs_type, options) ==
    [kind |-> "attach", root |-> root, device |-> device, mount_point |-> mount_point,
     mkdir |-> mkdir, read_only |-> ro, fs_type |-> fs_type, options |-> options,
     force |-> FALSE]
DetachRequest(root, mount_point, force) ==
    [kind |-> "detach", root |-> root, device |-> <<>>, mount_point |-> mount_point,
     mkdir |-> FALSE, read_only |-> FALSE, fs_type |-> None, options |-> None,
     force |-> force]
NoRequest ==
    [kind |-> "none", root |-> FALSE, device |-> <<>>, mount_point |-> <<>>,
     mkdir |-> FALSE, read_only |-> FALSE, fs_type |-> None, options |-> None,
     force |-> FALSE]

Plain(device, mount_point) == AttachRequest(TRUE, device, mount_point, FALSE, FALSE, None, None)

\* the requests that can get as far as opening the device on a mount point
\* that exists
LaterAttachRequests ==
    {Plain(d, m) : d \in {DevSdb1, DevSdc1}, m \in {MntSecure, MntLink, MntLong}}

\* every request; the first invocation of a behaviour draws from these, the
\* ones after it from LaterAttachRequests
AttachRequests ==
    LaterAttachRequests
    \cup {Plain(DevSdb1, m) : m \in {MntRel, MntDotDot, MntFile, MntNew}}
    \cup {Plain(d, MntSecure) : d \in {DevRel, DevDotDot, DevTmp, DevGone}}
    \cup {AttachRequest(FALSE, DevSdb1, MntSecure, FALSE, FALSE, None, None),
          AttachRequest(FALSE, DevSdb1, MntNew, TRUE, FALSE, None, None),
          AttachRequest(TRUE, DevSdb1, MntNew, TRUE, FALSE, None, None),
          AttachRequest(TRUE, DevSdb1, MntSecure, FALSE, TRUE, Some(FsExt4), Some(OptNoatime)),
          AttachRequest(TRUE, DevSdb1, MntSecure, FALSE, FALSE, Some(FsExt9000), None),
          AttachRequest(TRUE, DevSdb1, MntSecure, FALSE, FALSE, None, Some(OptInject)),
          AttachRequest(TRUE, DevSdb1, MntSecure, FALSE, FALSE, None, Some(OptSuid))}

DetachRequests ==
    {DetachRequest(TRUE, m, FALSE) :
        m \in {MntSecure, MntData, MntLink, MntLong, MntRel, MntNew}}
    \cup {DetachRequest(TRUE, MntSecure, TRUE), DetachRequest(FALSE, MntSecure, FALSE)}

(***************************************************************************)
(* State                                                                   *)
(***************************************************************************)
VARIABLES
    pc,            \* position of the running binary, "idle" between invocations
    req,           \* its command line
    mount_point,   \* luks_umount: the canonicalized mount point
    attempts,      \* luks_mount: collisions of the name loop so far
    mapper_name,   \* the reserved (attach) or resolved (detach) mapper name
    password,      \* "none", "held" or "zeroized"
    mount_err,     \* luks_mount: the mount error that is returned after rollback
    result,        \* what the last invocation returned, "none" while it runs
    calls,         \* the operations this invocation has invoked, in order
    unrecorded,    \* the mount whose record the invocation before this one failed to persist
    runs,          \* invocations started
    mapperNs,      \* names present in the device-mapper namespace
    backing,       \* the device under each name of the namespace
    mountTable,    \* the live mount table
    dirs,          \* directories that exist
    stateDir,      \* /run/luksctl
    faults         \* failures injected so far

vars == <<pc, req, mount_point, attempts, mapper_name, password, mount_err, result,
          calls, unrecorded, runs, mapperNs, backing, mountTable, dirs, stateDir, faults>>

world == <<mapperNs, backing, mountTable, dirs, stateDir>>
locals == <<req, mount_point, attempts, mapper_name, mount_err>>

\* an external operation: the mapper name, the device, the mount point and
\* the options it was given, and whether it succeeded
Call(op, name, path, target, opts, ok) ==
    [op |-> op, name |-> name, path |-> path, target |-> target, opts |-> opts,
     ok |-> ok, err |-> IF ok THEN "" ELSE "failed"]
\* an operation of the mapping store, with the error it returned
StoreCall(op, name, path, target, res) ==
    [op |-> op, name |-> name, path |-> path, target |-> target, opts |-> <<>>,
     ok |-> res.ok, err |-> res.err]

Unrecorded(mp, name) == [some |-> TRUE, mount_point |-> mp, mapper_name |-> name]
NoUnrecorded == [some |-> FALSE, mount_point |-> <<>>, mapper_name |-> <<>>]

Init ==
    /\ pc = "idle"
    /\ req = NoRequest
    /\ mount_point = <<>>
    /\ attempts = 0
    /\ mapper_name = <<>>
    /\ password = "none"
    /\ mount_err = ""
    /\ result = "none"
    /\ calls = <<>>
    /\ unrecorded = NoUnrecorded
    /\ runs = 0
    /\ mapperNs = {}
    /\ backing = <<>>
    /\ mountTable = <<MountEntry(DevSda2, MntData)>>
    /\ dirs = {MntSecure, MntData, MntLong}
    /\ stateDir = EmptyStateDir
    /\ faults = 0

\* main returns: the SecretString, if one was created, is dropped
Return(res) ==
    /\ pc' = "idle"
    /\ result' = res
    /\ password' = IF password = "held" THEN "zeroized" ELSE password

Goto(label) ==
    /\ pc' = label
    /\ UNCHANGED <<result, password>>

Log(c) == calls' = Append(calls, c)

\* an outcome that is a failure uses up one of the failures of the behaviour
Fault(failed) ==
    /\ failed => faults < MaxFaults
    /\ faults' = IF failed THEN faults + 1 ELSE faults

Start(r, label) ==
    /\ pc = "idle"
    /\ runs < MaxRuns
    /\ runs' = runs + 1
    /\ req' = r
    /\ pc' = label
    /\ mount_point' = <<>>
    /\ attempts' = 0
    /\ mapper_name' = <<>>
    /\ password' = "none"
    /\ mount_err' = ""
    /\ result' = "none"
    /\ calls' = <<>>
    /\ unrecorded' = IF \E i \in 1..Len(calls) : calls[i].op = "put" /\ ~calls[i].ok
                     THEN Unrecorded(req.mount_point, mapper_name)
                     ELSE NoUnrecorded
    /\ UNCHANGED <<world, faults>>

(***************************************************************************)
(* luks_mount: the attach protocol                                         *)
(***************************************************************************)
StartAttach ==
    \E r \in (IF runs = 0 THEN AttachRequests ELSE LaterAttachRequests) : Start(r, "a_root")

\* AttachCheckRoot without the test of the effective user
AttachCheckRoot_Skip ==
    /\ pc = "a_root"
    /\ Goto("a_device")
    /\ UNCHANGED <<locals, calls, unrecorded, runs, world, faults>>

\* luks_mount.rs 80-83
AttachCheckRoot ==
    /\ pc = "a_root"
    /\ IF ~req.root THEN Return("NotRoot") ELSE Goto("a_device")
    /\ UNCHANGED <<locals, calls, unrecorded, runs, world, faults>>

\* luks_mount.rs 85-99
AttachValidateDevice ==
    /\ pc = "a_device"
    /\ IF ~is_absolute(req.device) THEN Return("PathInvalid")
       ELSE IF contains(to_string_lossy(req.device), DotDot)
               \/ contains_char(to_string_lossy(req.device), NUL)
            THEN Return("PathInvalid")
       ELSE IF ~path_exists(req.device, dirs, mapperNs) THEN Return("NotFound")
       ELSE Goto("a_probe")
    /\ UNCHANGED <<locals, calls, unrecorded, runs, world, faults>>

\* luks_mount.rs 101-104 and luks.rs is_luks_device
AttachProbe ==
    /\ pc = "a_probe"
    /\ IF \/ ~is_absolute(req.device)
          \/ contains(to_string_lossy(req.device), DotDot)
          \/ ~starts_with(to_string_lossy(req.device), DEV_PREFIX)
       THEN Return("PathInvalid") /\ UNCHANGED <<calls, faults>>
       ELSE \E out \in {"luks", "other", "failed"} :
                /\ Fault(out = "failed")
                /\ Log(Call("probe", <<>>, req.device, <<>>, <<>>, out # "failed"))
                /\ IF out = "failed" THEN Return("ExternalOperationFailed")
                   ELSE IF out = "other" THEN Return("NotLuks")
                   ELSE Goto("a_mount_point")
    /\ UNCHANGED <<locals, unrecorded, runs, world>>

\* luks_mount.rs 106-134
AttachPrepareMountPoint ==
    /\ pc = "a_mount_point"
    /\ IF \/ ~is_absolute(req.mount_point)
          \/ contains(to_string_lossy(req.mount_point), DotDot)
          \/ contains_char(to_string_lossy(req.mount_point), NUL)
       THEN Return("PathInvalid") /\ UNCHANGED <<calls, dirs, faults>>
       ELSE IF req.mkdir /\ ~path_exists(req.mount_point, dirs, mapperNs)
            THEN \E io \in {"ok", "mkdir", "chmod"} :
                     /\ Fault(io # "ok")
                     /\ Log(Call("mkdir", <<>>, <<>>, req.mount_point, <<>>, io = "ok"))
                     /\ dirs' = IF io = "mkdir" THEN dirs ELSE dirs \cup {req.mount_point}
                     /\ IF io = "ok" THEN Goto("a_name") ELSE Return("PersistenceFailed")
       ELSE IF ~path_exists(req.mount_point, dirs, mapperNs)
            THEN Return("NotFound") /\ UNCHANGED <<calls, dirs, faults>>
       ELSE IF ~is_dir(req.mount_point, dirs)
            THEN Return("NotADirectory") /\ UNCHANGED <<calls, dirs, faults>>
       ELSE Goto("a_name") /\ UNCHANGED <<calls, dirs, faults>>
    /\ UNCHANGED <<locals, unrecorded, runs, mapperNs, backing, mountTable, stateDir>>

\* AttachGenerateName that takes the first candidate without the presence check
AttachGenerateName_NoCheck ==
    /\ pc = "a_name"
    /\ \E uuid \in Uuids :
        LET name == generate_mapper_name(uuid) IN
        /\ mapper_name' = name
        /\ IF ~mapper_exists(name, dirs, mapperNs)
           THEN Log(Call("reserve", name, <<>>, <<>>, <<>>, TRUE))
           ELSE UNCHANGED calls
        /\ Goto("a_prompt")
        /\ UNCHANGED attempts
    /\ UNCHANGED <<req, mount_point, mount_err, unrecorded, runs, world, faults>>

\* AttachGenerateName that gives up only once attempts exceeds MAX_RETRIES
AttachGenerateName_OffByOne ==
    /\ pc = "a_name"
    /\ \E uuid \in Uuids :
        LET name == generate_mapper_name(uuid) IN
        IF ~mapper_exists(name, dirs, mapperNs)
        THEN /\ mapper_name' = name
             /\ Log(Call("reserve", name, <<>>, <<>>, <<>>, TRUE))
             /\ Goto("a_prompt")
             /\ UNCHANGED attempts
        ELSE /\ attempts' = attempts + 1
             /\ IF attempts + 1 > MAX_RETRIES THEN Return("IdentityExhausted")
                ELSE Goto("a_name")
             /\ UNCHANGED <<mapper_name, calls>>
    /\ UNCHANGED <<req, mount_point, mount_err, unrecorded, runs, world, faults>>

\* luks_mount.rs 136-150: one turn of the loop
AttachGenerateName ==
    /\ pc = "a_name"
    /\ \E uuid \in Uuids :
        LET name == generate_mapper_name(uuid) IN
        IF ~mapper_exists(name, dirs, mapperNs)
        THEN /\ mapper_name' = name
             /\ Log(Call("reserve", name, <<>>, <<>>, <<>>, TRUE))
             /\ Goto("a_prompt")
             /\ UNCHANGED attempts
        ELSE /\ attempts' = attempts + 1
             /\ IF attempts + 1 >= MAX_RETRIES THEN Return("IdentityExhausted")
                ELSE Goto("a_name")
             /\ UNCHANGED <<mapper_name, calls>>
    /\ UNCHANGED <<req, mount_point, mount_err, unrecorded, runs, world, faults>>

\* luks_mount.rs 155-160
AttachPrompt ==
    /\ pc = "a_prompt"
    /\ \E read \in BOOLEAN :
        /\ Fault(~read)
        /\ Log(Call("prompt", <<>>, <<>>, <<>>, <<>>, read))
        /\ IF read
           THEN pc' = "a_open" /\ password' = "held" /\ UNCHANGED result
           ELSE Return("PromptFailed")
    /\ UNCHANGED <<locals, unrecorded, runs, world>>

\* cryptsetup open refuses a device that is already under an open mapping
device_in_use(device, bk) == \E n \in DOMAIN bk : bk[n] = device

\* luks_mount.rs 162-163 and luks.rs luks_open
AttachOpen ==
    /\ pc = "a_open"
    /\ IF ~validate_device_path(req.device, dirs, mapperNs).ok
       THEN /\ Return(validate_device_path(req.device, dirs, mapperNs).err)
            /\ UNCHANGED <<calls, mapperNs, backing, faults>>
       ELSE IF ~luks_validate_mapper_name(mapper_name).ok
            THEN Return("NameInvalid") /\ UNCHANGED <<calls, mapperNs, backing, faults>>
       ELSE \E out \in {"ok", "AuthenticationFailed", "OpenFailed"} :
                /\ device_in_use(req.device, backing) => out = "OpenFailed"
                /\ Fault(out # "ok" /\ ~device_in_use(req.device, backing))
                /\ Log(Call("open", mapper_name, req.device, <<>>, <<>>, out = "ok"))
                /\ IF out = "ok"
                   THEN /\ mapper_name \notin mapperNs
                        /\ mapperNs' = mapperNs \cup {mapper_name}
                        /\ backing' = [n \in mapperNs \cup {mapper_name} |->
                                           IF n = mapper_name THEN req.device ELSE backing[n]]
                        /\ Goto("a_mount")
                   ELSE Return(out) /\ UNCHANGED <<mapperNs, backing>>
    /\ UNCHANGED <<locals, unrecorded, runs, mountTable, dirs, stateDir>>

\* AttachMount that propagates the mount error with `?`, without rollback
AttachMount_NoRollback ==
    /\ pc = "a_mount"
    /\ LET mapper_path == get_mapper_path(mapper_name)
           options == [read_only |-> req.read_only, fs_type |-> req.fs_type,
                       options |-> req.options]
           checked == mount_device_checked(mapper_path, req.mount_point, options,
                                           dirs, mapperNs)
       IN  IF ~checked.ok
           THEN /\ mount_err' = checked.err
                /\ Return(checked.err)
                /\ UNCHANGED <<calls, mountTable, faults>>
           ELSE \E mounted \in BOOLEAN :
                    /\ Fault(~mounted)
                    /\ Log(Call("mount", mapper_name, mapper_path, req.mount_point,
                                checked.v.opts, mounted))
                    /\ IF mounted
                       THEN /\ Len(mountTable) < MaxMounts
                            /\ mountTable' = Append(mountTable,
                                   MountEntry(mapper_path, canonicalize(req.mount_point)))
                            /\ Goto("a_persist")
                            /\ UNCHANGED mount_err
                       ELSE /\ mount_err' = "MountFailed"
                            /\ Return("MountFailed")
                            /\ UNCHANGED mountTable
    /\ UNCHANGED <<req, mount_point, attempts, mapper_name, unrecorded, runs,
                   mapperNs, backing, dirs, stateDir>>

\* luks_mount.rs 168-185 and mount.rs mount_device
AttachMount ==
    /\ pc = "a_mount"
    /\ LET mapper_path == get_mapper_path(mapper_name)
           options == [read_only |-> req.read_only, fs_type |-> req.fs_type,
                       options |-> req.options]
           checked == mount_device_checked(mapper_path, req.mount_point, options,
                                           dirs, mapperNs)
       IN  IF ~checked.ok
           THEN /\ mount_err' = checked.err
                /\ Goto("a_rollback")
                /\ UNCHANGED <<calls, mountTable, faults>>
           ELSE \E mounted \in BOOLEAN :
                    /\ Fault(~mounted)
                    /\ Log(Call("mount", mapper_name, mapper_path, req.mount_point,
                                checked.v.opts, mounted))
                    /\ IF mounted
                       THEN /\ Len(mountTable) < MaxMounts
                            /\ mountTable' = Append(mountTable,
                                   MountEntry(mapper_path, canonicalize(req.mount_point)))
                            /\ Goto("a_persist")
                            /\ UNCHANGED mount_err
                       ELSE /\ mount_err' = "MountFailed"
                            /\ Goto("a_rollback")
                            /\ UNCHANGED mountTable
    /\ UNCHANGED <<req, mount_point, attempts, mapper_name, unrecorded, runs,
                   mapperNs, backing, dirs, stateDir>>

\* cryptsetup close succeeds only on a mapping that exists and is not in use
can_close(name, ns, table) ==
    /\ name \in ns
    /\ \A i \in 1..Len(table) : table[i].source # get_mapper_path(name)

\* luks.rs luks_close after its validation: run cryptsetup close
RunClose(closed) ==
    /\ closed => can_close(mapper_name, mapperNs, mountTable)
    /\ Fault(~closed /\ can_close(mapper_name, mapperNs, mountTable))
    /\ Log(Call("close", mapper_name, <<>>, <<>>, <<>>, closed))
    /\ mapperNs' = IF closed THEN mapperNs \ {mapper_name} ELSE mapperNs
    /\ backing' = IF closed THEN [n \in mapperNs \ {mapper_name} |-> backing[n]]
                ELSE backing

\* AttachRollback without the call of luks_close
AttachRollback_NoClose ==
    /\ pc = "a_rollback"
    /\ Return(mount_err)
    /\ UNCHANGED <<locals, calls, unrecorded, runs, world, faults>>

\* luks_mount.rs 181-184 and luks.rs luks_close: the result of close is dropped
AttachRollback ==
    /\ pc = "a_rollback"
    /\ IF ~luks_validate_mapper_name(mapper_name).ok
       THEN UNCHANGED <<calls, mapperNs, backing, faults>>
       ELSE \E closed \in BOOLEAN : RunClose(closed)
    /\ Return(mount_err)
    /\ UNCHANGED <<locals, unrecorded, runs, mountTable, dirs, stateDir>>

\* AttachPersist that drops the result of store_mount_mapping
AttachPersist_Swallow ==
    /\ pc = "a_persist"
    /\ \E io \in StoreIo :
        LET put == store_mount_mapping(stateDir, req.mount_point, mapper_name,
                                       req.device, io)
        IN  /\ Fault(io # "ok")
            /\ stateDir' = put.fs
            /\ Log(StoreCall("put", mapper_name, req.device, req.mount_point, put.res))
            /\ Return("Ok")
    /\ UNCHANGED <<locals, unrecorded, runs, mapperNs, backing, mountTable, dirs>>

\* AttachPersist that stores under the canonical form of the mount point
AttachPersist_Canonical ==
    /\ pc = "a_persist"
    /\ \E io \in StoreIo :
        LET put == store_mount_mapping(stateDir, canonicalize(req.mount_point),
                                       mapper_name, req.device, io)
        IN  /\ Fault(io # "ok")
            /\ stateDir' = put.fs
            /\ Log(StoreCall("put", mapper_name, req.device, req.mount_point, put.res))
            /\ Return(IF put.res.ok THEN "Ok" ELSE put.res.err)
    /\ UNCHANGED <<locals, unrecorded, runs, mapperNs, backing, mountTable, dirs>>

\* luks_mount.rs 187-199 and mapper.rs store_mount_mapping
AttachPersist ==
    /\ pc = "a_persist"
    /\ \E io \in StoreIo :
        LET put == store_mount_mapping(stateDir, req.mount_point, mapper_name,
                                       req.device, io)
        IN  /\ Fault(io # "ok")
            /\ stateDir' = put.fs
            /\ Log(StoreCall("put", mapper_name, req.device, req.mount_point, put.res))
            /\ Return(IF put.res.ok THEN "Ok" ELSE put.res.err)
    /\ UNCHANGED <<locals, unrecorded, runs, mapperNs, backing, mountTable, dirs>>

Attach ==
    \/ StartAttach
    \/ AttachCheckRoot
    \/ AttachValidateDevice
    \/ AttachProbe
    \/ AttachPrepareMountPoint
    \/ AttachGenerateName
    \/ AttachPrompt
    \/ AttachOpen
    \/ AttachMount
    \/ AttachRollback
    \/ AttachPersist

(***************************************************************************)
(* luks_umount: the detach protocol                                        *)
(***************************************************************************)
StartDetach ==
    \E r \in DetachRequests : Start(r, "d_validate")

\* luks_umount.rs 47-71
DetachValidate ==
    /\ pc = "d_validate"
    /\ IF ~req.root THEN Return("NotRoot") /\ UNCHANGED mount_point
       ELSE IF ~is_absolute(req.mount_point)
            THEN Return("PathInvalid") /\ UNCHANGED mount_point
       ELSE IF contains_char(to_string_lossy(req.mount_point), NUL)
            THEN Return("PathInvalid") /\ UNCHANGED mount_point
       ELSE IF ~is_absolute(canonicalize(req.mount_point))
            THEN Return("PathInvalid") /\ UNCHANGED mount_point
       ELSE Goto("d_is_mounted") /\ mount_point' = canonicalize(req.mount_point)
    /\ UNCHANGED <<req, attempts, mapper_name, mount_err, calls, unrecorded, runs,
                   world, faults>>

\* DetachIsMounted without the look at the mount table
DetachIsMounted_Skip ==
    /\ pc = "d_is_mounted"
    /\ Goto("d_lookup")
    /\ UNCHANGED <<locals, calls, unrecorded, runs, world, faults>>

\* luks_umount.rs 73-76 and mount.rs is_mounted
DetachIsMounted ==
    /\ pc = "d_is_mounted"
    /\ \E read \in BOOLEAN :
        /\ Fault(~read)
        /\ IF ~read THEN Return("ExternalOperationFailed")
           ELSE IF ~is_mounted(mount_point, mountTable) THEN Return("NotMounted")
           ELSE Goto("d_lookup")
    /\ UNCHANGED <<locals, calls, unrecorded, runs, world>>

\* DetachLookup that goes to the mount table without asking the store
DetachLookup_SkipStore ==
    /\ pc = "d_lookup"
    /\ Goto("d_fallback")
    /\ UNCHANGED <<locals, calls, unrecorded, runs, world, faults>>

\* luks_umount.rs 78-80 and mapper.rs get_mount_mapping
DetachLookup ==
    /\ pc = "d_lookup"
    /\ \E io \in ReadIo :
        LET got == get_mount_mapping(stateDir, mount_point, io) IN
        /\ Fault(io # "ok")
        /\ Log(StoreCall("get", IF got.ok /\ got.v.some THEN got.v.v.name ELSE <<>>,
                      <<>>, mount_point, got))
        /\ IF ~got.ok THEN Return(got.err) /\ UNCHANGED mapper_name
           ELSE IF got.v.some THEN Goto("d_check_name") /\ mapper_name' = got.v.v.name
           ELSE Goto("d_fallback") /\ UNCHANGED mapper_name
    /\ UNCHANGED <<req, mount_point, attempts, mount_err, unrecorded, runs, world>>

\* luks_umount.rs 81-89 and mapper.rs find_mapper_by_mount_point
DetachFallback ==
    /\ pc = "d_fallback"
    /\ \E read \in BOOLEAN :
        LET found == find_mapper_by_mount_point(mount_point, mountTable) IN
        /\ Fault(~read)
        /\ Log(Call("find", IF read /\ found.some THEN found.v ELSE <<>>,
                    <<>>, mount_point, <<>>, read))
        /\ IF ~read THEN Return("ExternalOperationFailed") /\ UNCHANGED mapper_name
           ELSE IF found.some THEN Goto("d_check_name") /\ mapper_name' = found.v
           ELSE Return("MappingNotFound") /\ UNCHANGED mapper_name
    /\ UNCHANGED <<req, mount_point, attempts, mount_err, unrecorded, runs, world>>

\* luks_umount.rs 91-97
DetachCheckName ==
    /\ pc = "d_check_name"
    /\ IF \/ mapper_name = <<>>
          \/ contains_char(mapper_name, "/")
          \/ contains_char(mapper_name, NUL)
          \/ contains(mapper_name, DotDot)
       THEN Return("NameInvalid")
       ELSE Goto("d_unmount")
    /\ UNCHANGED <<locals, calls, unrecorded, runs, world, faults>>

\* DetachUnmount that goes on to close after a failed unmount
DetachUnmount_IgnoreFailure ==
    /\ pc = "d_unmount"
    /\ \E unmounted \in BOOLEAN :
        /\ unmounted => is_mounted(mount_point, mountTable)
        /\ Fault(~unmounted)
        /\ Log(Call("umount", <<>>,
                    IF unmounted
                    THEN mountTable[top_mount(mount_point, mountTable)].source
                    ELSE <<>>,
                    mount_point, IF req.force THEN <<"-", "l">> ELSE <<>>, unmounted))
        /\ mountTable' = IF unmounted
                         THEN without_entry(mountTable, top_mount(mount_point, mountTable))
                         ELSE mountTable
        /\ Goto("d_close")
    /\ UNCHANGED <<locals, unrecorded, runs, mapperNs, backing, dirs, stateDir>>

\* luks_umount.rs 102-120 and mount.rs unmount
DetachUnmount ==
    /\ pc = "d_unmount"
    /\ IF req.force /\ contains_char(mount_point, INVALID_BYTE)
       THEN Return("PathInvalid") /\ UNCHANGED <<calls, mountTable, faults>>
       ELSE IF ~req.force /\ (\/ ~is_absolute(mount_point)
                              \/ contains_char(to_string_lossy(mount_point), NUL)
                              \/ contains(to_string_lossy(mount_point), DotDot))
            THEN Return("PathInvalid") /\ UNCHANGED <<calls, mountTable, faults>>
       ELSE \E unmounted \in BOOLEAN :
                /\ unmounted => is_mounted(mount_point, mountTable)
                /\ Fault(~unmounted)
                /\ Log(Call("umount", <<>>,
                            IF unmounted
                            THEN mountTable[top_mount(mount_point, mountTable)].source
                            ELSE <<>>,
                            mount_point, IF req.force THEN <<"-", "l">> ELSE <<>>, unmounted))
                /\ IF unmounted
                   THEN /\ mountTable' = without_entry(mountTable,
                                             top_mount(mount_point, mountTable))
                        /\ Goto("d_close")
                   ELSE Return("UnmountFailed") /\ UNCHANGED mountTable
    /\ UNCHANGED <<locals, unrecorded, runs, mapperNs, backing, dirs, stateDir>>

\* luks_umount.rs 122-125 and luks.rs luks_close
DetachClose ==
    /\ pc = "d_close"
    /\ IF ~luks_validate_mapper_name(mapper_name).ok
       THEN Return("NameInvalid") /\ UNCHANGED <<calls, mapperNs, backing, faults>>
       ELSE \E closed \in BOOLEAN :
                /\ RunClose(closed)
                /\ IF closed THEN Goto("d_remove") ELSE Return("CloseFailed")
    /\ UNCHANGED <<locals, unrecorded, runs, mountTable, dirs, stateDir>>

\* DetachRemove that propagates the error of remove_mount_mapping with `?`
DetachRemove_Propagate ==
    /\ pc = "d_remove"
    /\ \E io \in RemoveIo :
        LET removed == remove_mount_mapping(stateDir, mount_point, io) IN
        /\ Fault(io # "ok")
        /\ stateDir' = removed.fs
        /\ Log(StoreCall("remove", <<>>, <<>>, mount_point, removed.res))
        /\ Return(IF removed.res.ok THEN "Ok" ELSE removed.res.err)
    /\ UNCHANGED <<locals, unrecorded, runs, mapperNs, backing, mountTable, dirs>>

\* luks_umount.rs 127-133 and mapper.rs remove_mount_mapping: the result is dropped
DetachRemove ==
    /\ pc = "d_remove"
    /\ \E io \in RemoveIo :
        LET removed == remove_mount_mapping(stateDir, mount_point, io) IN
        /\ Fault(io # "ok")
        /\ stateDir' = removed.fs
        /\ Log(StoreCall("remove", <<>>, <<>>, mount_point, removed.res))
    /\ Return("Ok")
    /\ UNCHANGED <<locals, unrecorded, runs, mapperNs, backing, mountTable, dirs>>

Detach ==
    \/ StartDetach
    \/ DetachValidate
    \/ DetachIsMounted
    \/ DetachLookup
    \/ DetachFallback
    \/ DetachCheckName
    \/ DetachUnmount
    \/ DetachClose
    \/ DetachRemove

(***************************************************************************)
(* Another process with access to /run/luksctl replaces a state file by a  *)
(* symbolic link (dangling, or to a file it chose), by a directory or by a  *)
(* record of its own.  The binaries look at the directory only in the      *)
(* steps of StoreSteps, so a replacement at any other moment is the same   *)
(* as one right before them.                                               *)
(***************************************************************************)
ForeignContent == <<"l", "u", "k", "s", "-", "x", ":", "/", "d", "e", "v", "/", "x">>
\* a record whose name the store accepts and cryptsetup's gateway does not
OddNameContent == <<"l", "u", "k", "s", "-", "x", ".", "y", ":", "/", "d", "e", "v", "/", "x">>

StoreSteps == {"a_persist", "d_lookup", "d_remove"}
store_key == escape_mount_path(IF req.kind = "attach" THEN req.mount_point ELSE mount_point)

Tamper ==
    /\ pc \in StoreSteps
    /\ stateDir.exists
    /\ store_key.ok
    /\ Fault(TRUE)
    /\ \E rec \in {SymLink(FALSE, <<>>, 0), SymLink(TRUE, ForeignContent, 420),
                   Directory(493), RegularFile(OddNameContent, STATE_FILE_PERMS)} :
            stateDir' = WithFile(stateDir, store_key.v, rec)
    /\ UNCHANGED <<pc, req, mount_point, attempts, mapper_name, password, mount_err,
                   result, calls, unrecorded, runs, mapperNs, backing, mountTable, dirs>>

Next == Attach \/ Detach \/ Tamper

Spec == Init /\ [][Next]_vars

(***************************************************************************)
(* The mapping store on its own: put, get and remove called with arguments *)
(* drawn from small sets, on a state directory another process may touch   *)
(***************************************************************************)
\* calls of the store in one behaviour
MaxStoreOps == 3

\* a device path under /dev that makes the record longer than 1024 bytes
DevLong == DEV_PREFIX \o [i \in 1..1020 |-> "a"]
\* a device path with a colon in it
DevById == <<"/", "d", "e", "v", "/", "d", "i", "s", "k", "/", "u", "s", "b", ":", "0">>
NameColon == <<"l", "u", "k", "s", "-", "a", ":", "b">>
NameForeign == <<"s", "d", "a", "_", "c", "r", "y", "p", "t">>

\* a mount point whose escaped form is that of /mnt/secure
MntUnderscore == <<"/", "m", "n", "t", "_", "s", "e", "c", "u", "r", "e">>
StoreMountPoints == {MntSecure, MntData, MntUnderscore}
\* the (mapper name, device) pairs a behaviour stores; one is drawn at the start
StoreRecords ==
    {<<generate_mapper_name(UuidOf(1)), DevSdb1>>,
     <<generate_mapper_name(UuidOf(1)), DevById>>,
     <<generate_mapper_name(UuidOf(1)), DevLong>>,
     <<NameColon, DevSdb1>>,
     <<NameForeign, DevSdb1>>}

\* the directory is absent, or was created by something else with mode 0755
StoreInitDirs == {EmptyStateDir, [exists |-> TRUE, mode |-> 493, files |-> <<>>]}

StoreInit ==
    /\ pc = "store"
    /\ \E r \in StoreRecords :
        /\ req = [NoRequest EXCEPT !.kind = "store", !.device = r[2]]
        /\ mapper_name = r[1]
    /\ mount_point = <<>>
    /\ attempts = 0
    /\ password = "none"
    /\ mount_err = ""
    /\ result = "none"
    /\ calls = <<>>
    /\ unrecorded = NoUnrecorded
    /\ runs = 0
    /\ mapperNs = {}
    /\ backing = <<>>
    /\ mountTable = <<>>
    /\ dirs = {}
    /\ stateDir \in StoreInitDirs
    /\ faults = 0

StoreFrame ==
    UNCHANGED <<pc, req, mount_point, attempts, mapper_name, password, mount_err,
                result, unrecorded, runs, mapperNs, backing, mountTable, dirs>>

StorePut ==
    /\ pc = "store"
    /\ Len(calls) < MaxStoreOps
    /\ \E m \in StoreMountPoints, io \in StoreIo :
        LET put == store_mount_mapping(stateDir, m, mapper_name, req.device, io) IN
        /\ Fault(io # "ok")
        /\ stateDir' = put.fs
        /\ Log(StoreCall("put", mapper_name, req.device, m, put.res))
    /\ StoreFrame

StoreGet ==
    /\ pc = "store"
    /\ Len(calls) < MaxStoreOps
    /\ \E m \in StoreMountPoints, io \in ReadIo :
        LET got == get_mount_mapping(stateDir, m, io) IN
        /\ Fault(io # "ok")
        /\ Log(StoreCall("get", IF got.ok /\ got.v.some THEN got.v.v.name ELSE <<>>,
                          IF got.ok /\ got.v.some THEN got.v.v.device ELSE <<>>, m, got))
    /\ UNCHANGED stateDir
    /\ StoreFrame

StoreRemove ==
    /\ pc = "store"
    /\ Len(calls) < MaxStoreOps
    /\ \E m \in StoreMountPoints, io \in RemoveIo :
        LET removed == remove_mount_mapping(stateDir, m, io) IN
        /\ Fault(io # "ok")
        /\ stateDir' = removed.fs
        /\ Log(StoreCall("remove", <<>>, <<>>, m, removed.res))
    /\ StoreFrame

\* what another process leaves at a state-file path: a dangling link, a link
\* to a file of its own, a directory, or a regular file of mode 0644
GarbageContent == <<"g", "a", "r", "b", "a", "g", "e">>
StoreTamperRecords ==
    {SymLink(FALSE, <<>>, 0), SymLink(TRUE, ForeignContent, 420), Directory(493),
     RegularFile(GarbageContent, 420)}

StoreTamper ==
    /\ pc = "store"
    /\ Len(calls) < MaxStoreOps
    /\ stateDir.exists
    /\ Fault(TRUE)
    /\ \E m \in StoreMountPoints :
       \E rec \in StoreTamperRecords :
            /\ stateDir' = WithFile(stateDir, escape_mount_path(m).v, rec)
            /\ Log(Call("tamper", <<>>, <<>>, m, <<>>, TRUE))
    /\ StoreFrame

StoreNext == StorePut \/ StoreGet \/ StoreRemove \/ StoreTamper

SpecStore == StoreInit /\ [][StoreNext]_vars

(***************************************************************************)
(* The validators of the two gateways on their own: mount_device called    *)
(* with an option string, and the two validate_mapper_name functions called *)
(* with a name, both drawn from bounded sets                                *)
(***************************************************************************)
\* longest option string and longest name built from the alphabets
MaxOptLen == 4
MaxNameLen == 3

Strings(alphabet, n) == UNION {[1..k -> alphabet] : k \in 0..n}

OptAlphabet == {"a", ",", " ", ";", "\n"}
OptLong == [i \in 1..1025 |-> "a"]
OptNul == <<"r", "o", NUL>>
OptionStrings ==
    Strings(OptAlphabet, MaxOptLen) \cup {OptNoatime, OptInject, OptSuid, OptLong, OptNul}

NameAlphabet == {"a", "Z", "0", "-", "_", ".", "/", ":", NUL}
Name128 == [i \in 1..128 |-> "a"]
Name129 == [i \in 1..129 |-> "a"]
MapperNames ==
    Strings(NameAlphabet, MaxNameLen)
    \cup {Name128, Name129, generate_mapper_name(UuidOf(1)), NameColon, NameForeign}

GatewayInit ==
    /\ pc = "gateway"
    /\ req = [NoRequest EXCEPT !.kind = "gateway"]
    /\ mount_point = <<>>
    /\ attempts = 0
    /\ mapper_name = <<>>
    /\ password = "none"
    /\ mount_err = ""
    /\ result = "none"
    /\ calls = <<>>
    /\ unrecorded = NoUnrecorded
    /\ runs = 0
    /\ mapperNs = {}
    /\ backing = <<>>
    /\ mountTable = <<>>
    /\ dirs = {}
    /\ stateDir = EmptyStateDir
    /\ faults = 0

\* mount.rs mount_device 171-216 on a device and a mount point that pass
\* their validation, mount(8) succeeding
GatewayMountDevice ==
    /\ pc = "gateway"
    /\ \E ro \in BOOLEAN, o \in OptionStrings :
        LET args == mount_arguments([read_only |-> ro, fs_type |-> None,
                                     options |-> Some(o)])
        IN  /\ req' = [req EXCEPT !.read_only = ro, !.options = Some(o)]
            /\ IF args.ok
               THEN /\ Log(Call("mount", <<>>, <<>>, <<>>, args.v.opts, TRUE))
                    /\ result' = "Ok"
               ELSE /\ result' = args.err
                    /\ UNCHANGED calls
    /\ pc' = "idle"
    /\ UNCHANGED <<mount_point, attempts, mapper_name, password, mount_err,
                   unrecorded, runs, world, faults>>

\* luks.rs validate_mapper_name and mapper.rs validate_mapper_name on one name
GatewayValidateName ==
    /\ pc = "gateway"
    /\ \E n \in MapperNames :
        /\ mapper_name' = n
        /\ calls' = <<StoreCall("luks_validate_mapper_name", n, <<>>, <<>>,
                                luks_validate_mapper_name(n)),
                      StoreCall("mapper_validate_mapper_name", n, <<>>, <<>>,
                                mapper_validate_mapper_name(n))>>
    /\ pc' = "idle"
    /\ UNCHANGED <<req, mount_point, attempts, password, mount_err, result,
                   unrecorded, runs, world, faults>>

\* longest mount table handed to the fallback discovery
MaxTableLen == 2
NameSlash == <<"l", "u", "k", "s", "-", "a", "/", "b">>
NameNul == <<"l", "u", "k", "s", "-", "a", NUL>>
TableSources ==
    {DevSda2}
    \cup {get_mapper_path(n) : n \in {generate_mapper_name(UuidOf(1)),
                                      generate_mapper_name(UuidOf(2)),
                                      NameForeign, NameSlash, NameNul}}
TableTargets == {MntSecure, MntData, MntLink}
MountTables ==
    UNION {[1..k -> {MountEntry(s, tg) : s \in TableSources, tg \in TableTargets}] :
               k \in 0..MaxTableLen}

\* mapper.rs find_mapper_by_mount_point on a mount table that was read
GatewayFindMapper ==
    /\ pc = "gateway"
    /\ \E table \in MountTables, m \in {MntSecure, MntLink} :
        LET found == find_mapper_by_mount_point(m, table) IN
        /\ mountTable' = table
        /\ mount_point' = m
        /\ Log(Call("find", IF found.some THEN found.v ELSE <<>>, <<>>, m, <<>>, TRUE))
    /\ pc' = "idle"
    /\ UNCHANGED <<req, attempts, mapper_name, password, mount_err, result,
                   unrecorded, runs, mapperNs, backing, dirs, stateDir, faults>>

GatewayNext == GatewayMountDevice \/ GatewayValidateName \/ GatewayFindMapper

SpecGateway == GatewayInit /\ [][GatewayNext]_vars

(***************************************************************************)
(* Properties                                                              *)
(***************************************************************************)
AttachReturned == pc = "idle" /\ req.kind = "attach" /\ result # "none"
DetachReturned == pc = "idle" /\ req.kind = "detach" /\ result # "none"

Invoked(op) == {i \in 1..Len(calls) : calls[i].op = op}
Succeeded(op) == {i \in 1..Len(calls) : calls[i].op = op /\ calls[i].ok}
Failed(op) == {i \in 1..Len(calls) : calls[i].op = op /\ ~calls[i].ok}

\* mount_device returned an error: mount(8) failed or its validation did
MountStepFailed == mount_err # ""

IsMountedFrom(name) ==
    \E i \in 1..Len(mountTable) : mountTable[i].source = get_mapper_path(name)

\* C1: when open succeeded and the mount step failed, attach has invoked
\* close exactly once, with the name it gave to open, by the time it returns
\* the mount error.
C1_RollbackClosesOnce ==
    (AttachReturned /\ Succeeded("open") # {} /\ MountStepFailed) =>
        /\ Cardinality(Invoked("close")) = 1
        /\ \A i \in Invoked("close") : \A j \in Succeeded("open") :
               j < i /\ calls[i].name = calls[j].name
        /\ result = mount_err

C1_Witness ==
    /\ AttachReturned
    /\ Succeeded("open") # {}
    /\ Failed("mount") # {}
    /\ Invoked("close") # {}

PathSyntaxInvalid(p) ==
    \/ ~is_absolute(p)
    \/ contains(to_string_lossy(p), DotDot)
    \/ contains_char(to_string_lossy(p), NUL)

InputInvalid(r) ==
    \/ PathSyntaxInvalid(r.device)
    \/ PathSyntaxInvalid(r.mount_point)
    \/ r.fs_type.some /\ ~validate_fs_type(r.fs_type.v).ok
    \/ r.options.some /\ ~validate_mount_options(r.options.v).ok

\* C3: an attach whose device path, mount point, filesystem type or option
\* string is invalid invokes neither the probe nor open nor mount.
C3_ValidationBeforePrivileged ==
    (req.kind = "attach" /\ InputInvalid(req)) =>
        Invoked("probe") \cup Invoked("open") \cup Invoked("mount") = {}

\* C4: when persist fails after open and mount succeeded, attach returns an
\* error, has invoked neither unmount nor close, and the volume is still
\* mounted on its open mapping.
C4_PersistFailureKeepsMount ==
    (AttachReturned /\ Failed("put") # {}) =>
        /\ result # "Ok"
        /\ Invoked("umount") \cup Invoked("close") = {}
        /\ mapper_name \in mapperNs
        /\ \E i \in 1..Len(mountTable) :
               mountTable[i] = MountEntry(get_mapper_path(mapper_name),
                                          canonicalize(req.mount_point))

C4_Witness ==
    /\ AttachReturned
    /\ Failed("put") # {}
    /\ Succeeded("open") # {}
    /\ Succeeded("mount") # {}

\* C5: detach invokes close only after an unmount that succeeded and remove
\* only after a close that succeeded; after a failed unmount there is no
\* close and no remove, after a failed close no remove.
C5_DetachOrder ==
    req.kind = "detach" =>
        /\ \A i \in Invoked("close") : \E j \in Succeeded("umount") : j < i
        /\ \A i \in Invoked("remove") : \E j \in Succeeded("close") : j < i
        /\ Failed("umount") # {} => Invoked("close") \cup Invoked("remove") = {}
        /\ Failed("close") # {} => Invoked("remove") = {}

C5_Witness ==
    /\ DetachReturned
    /\ Succeeded("umount") # {}
    /\ Failed("close") # {}
    /\ Invoked("remove") = {}

\* C6: attach invokes open only with a name that the presence check reported
\* absent, mount only after open succeeded and on the device of that name,
\* and put only after mount succeeded.
C6_AttachOrder ==
    req.kind = "attach" =>
        /\ \A i \in Invoked("open") : \E j \in Invoked("reserve") :
               j < i /\ calls[j].name = calls[i].name
        /\ \A i \in Invoked("mount") : \E j \in Succeeded("open") :
               /\ j < i
               /\ calls[i].path = join(MAPPER_DIR, calls[j].name)
        /\ \A i \in Invoked("put") : \E j \in Succeeded("mount") :
               j < i /\ calls[i].name = calls[j].name

C6_Witness ==
    /\ AttachReturned
    /\ result = "Ok"
    /\ Succeeded("put") # {}

\* C7: detach consults the live mount table only after the store returned no
\* record; when neither yields a name it returns MappingNotFound and invokes
\* neither unmount nor close.
C7_StoreFirstThenTable ==
    req.kind = "detach" =>
        /\ \A i \in Invoked("find") :
               \E j \in Succeeded("get") : j < i /\ calls[j].name = <<>>
        /\ \A i \in Invoked("umount") \cup Invoked("close") :
               \E j \in Succeeded("get") \cup Succeeded("find") :
                   j < i /\ calls[j].name # <<>>
        /\ (DetachReturned /\ (\E i \in Succeeded("find") : calls[i].name = <<>>)) =>
               /\ result = "MappingNotFound"
               /\ Invoked("umount") \cup Invoked("close") = {}

C7_Witness ==
    /\ DetachReturned
    /\ result = "MappingNotFound"
    /\ Succeeded("get") # {}
    /\ Succeeded("find") # {}

\* C8: a detach of the mount point of an attach that opened and mounted but
\* failed to persist resolves the name that attach opened: the lookup does not
\* stop it, and it unmounts and closes that mapping.
C8_FallbackRecovers ==
    (req.kind = "detach" /\ unrecorded.some /\ req.mount_point = unrecorded.mount_point) =>
        /\ \A i \in Failed("get") : calls[i].err = "PersistenceFailed"
        /\ \A i \in Succeeded("umount") :
               calls[i].path = get_mapper_path(unrecorded.mapper_name)
        /\ \A i \in Invoked("close") : calls[i].name = unrecorded.mapper_name

\* C9: detach returns success whenever unmount and close succeeded, whatever
\* remove returned.
C9_RemoveFailureNotReported ==
    (DetachReturned /\ Succeeded("umount") # {} /\ Succeeded("close") # {}) =>
        result = "Ok"

C9_Witness ==
    /\ DetachReturned
    /\ Succeeded("umount") # {}
    /\ Succeeded("close") # {}
    /\ \E i \in Failed("remove") : calls[i].err = "TamperDetected"

\* a triple that meets the invariants of MountPoint, MapperName and DevicePath
ValidTriple(mp, name, device) ==
    /\ ~PathSyntaxInvalid(mp)
    /\ luks_validate_mapper_name(name).ok
    /\ ~PathSyntaxInvalid(device)
    /\ starts_with(device, DEV_PREFIX)

\* C10: a get that follows a successful put of a valid triple on the same
\* mount point returns the mapper name and the device that were stored.
C10_PutGetRoundTrip ==
    \A i \in 1..(Len(calls) - 1) :
        (/\ calls[i].op = "put"
         /\ calls[i].ok
         /\ ValidTriple(calls[i].target, calls[i].name, calls[i].path)
         /\ calls[i + 1].op = "get"
         /\ calls[i + 1].target = calls[i].target
         /\ calls[i + 1].err # "PersistenceFailed") =>
            /\ calls[i + 1].ok
            /\ calls[i + 1].name = calls[i].name
            /\ calls[i + 1].path = calls[i].path

(* The store specification: the call a step makes and the file it meets     *)
LastCall == calls[Len(calls)]
StoreKey(m) == escape_mount_path(m).v
\* the step calls op on mount point m and no system call of it is made to fail
StoreCalled(op, m) ==
    /\ pc = "store"
    /\ Len(calls') = Len(calls) + 1
    /\ calls'[Len(calls')].op = op
    /\ calls'[Len(calls')].target = m
    /\ faults' = faults
LinkAt(fs, m) ==
    /\ fs.exists
    /\ StoreKey(m) \in DOMAIN fs.files
    /\ fs.files[StoreKey(m)].kind = "symlink"
Colons(s) == {i \in 1..Len(s) : s[i] = ":"}

\* C11: a get or a remove on a mount point whose state-file path is a
\* symbolic link, dangling or not, fails with TamperDetected and leaves the
\* state directory and the link target as they were.
C11_SymlinkRejected ==
    [][\A m \in StoreMountPoints : \A op \in {"get", "remove"} :
          (StoreCalled(op, m) /\ LinkAt(stateDir, m)) =>
              /\ calls'[Len(calls')].err = "TamperDetected"
              /\ stateDir' = stateDir]_vars

\* C12: a put on a mount point whose state-file path is a symbolic link
\* leaves the file the link points to as it was.
C12_PutNeverFollowsSymlink ==
    [][\A m \in StoreMountPoints :
          (StoreCalled("put", m) /\ LinkAt(stateDir, m)) =>
              stateDir'.files[StoreKey(m)] = stateDir.files[StoreKey(m)]]_vars

\* C13: after a put that succeeded the state directory has mode 0700 and the
\* state file mode 0600, whatever was there before the call.
C13_OwnerOnlyAfterPut ==
    (calls # <<>> /\ LastCall.op = "put" /\ LastCall.ok) =>
        /\ stateDir.exists
        /\ stateDir.mode = STATE_DIR_PERMS
        /\ stateDir.files[StoreKey(LastCall.target)].mode = STATE_FILE_PERMS

\* the last call was a get that read a regular state file within the size cap
GetReadRecord ==
    /\ calls # <<>>
    /\ LastCall.op = "get"
    /\ LastCall.err # "PersistenceFailed"
    /\ is_regular_file(stateDir, StoreKey(LastCall.target))
    /\ Len(stateDir.files[StoreKey(LastCall.target)].content) <= MAX_STATE_CONTENT_LEN
GetContent == stateDir.files[StoreKey(LastCall.target)].content
GetReturnedNone == LastCall.ok /\ LastCall.name = <<>>
GetReturnedRecord == LastCall.ok /\ LastCall.name # <<>>

\* C14 as stated: get returns None, not an error, whenever the content has no
\* ':' or more than one, and a record only when it has exactly one.
C14_NoneUnlessTwoFields ==
    GetReadRecord =>
        /\ Cardinality(Colons(GetContent)) # 1 => GetReturnedNone
        /\ GetReturnedRecord => Cardinality(Colons(GetContent)) = 1

\* C14 amended: get returns None exactly when the content has no ':'; a
\* content with one or more is cut at the first ':' into the name and the
\* device, which keeps every later ':', and get returns that record when the
\* name is a valid mapper name and the error of the validation otherwise.
C14_NoneIffNoSeparator ==
    GetReadRecord =>
        LET cut == CHOOSE i \in Colons(GetContent) : \A j \in Colons(GetContent) : i <= j
            name == SubSeq(GetContent, 1, cut - 1)
            device == SubSeq(GetContent, cut + 1, Len(GetContent))
        IN  IF Colons(GetContent) = {} THEN GetReturnedNone
            ELSE IF mapper_validate_mapper_name(name).ok
                 THEN /\ GetReturnedRecord
                      /\ LastCall.name = name
                      /\ LastCall.path = device
            ELSE /\ ~LastCall.ok
                 /\ LastCall.err = mapper_validate_mapper_name(name).err

C14_Witness ==
    /\ GetReadRecord
    /\ Cardinality(Colons(GetContent)) > 1
    /\ GetReturnedRecord
    /\ Colons(LastCall.path) # {}

\* C15: a remove on a mount point with no state file succeeds and changes
\* nothing, and so does a remove that follows a successful remove on the same
\* mount point.
C15_RemoveIdempotent ==
    [][\A m \in StoreMountPoints :
          (/\ pc = "store"
           /\ Len(calls') = Len(calls) + 1
           /\ calls'[Len(calls')].op = "remove"
           /\ calls'[Len(calls')].target = m
           /\ \/ ~stateDir.exists
              \/ StoreKey(m) \notin DOMAIN stateDir.files
              \/ calls # <<>> /\ LastCall.op = "remove" /\ LastCall.target = m /\ LastCall.ok) =>
              /\ calls'[Len(calls')].ok
              /\ stateDir' = stateDir]_vars

C15_Witness ==
    /\ Len(calls) = 3
    /\ calls[1].op = "put" /\ calls[1].ok
    /\ \A i \in {2, 3} :
           calls[i].op = "remove" /\ calls[i].ok /\ calls[i].target = calls[1].target
    /\ StoreKey(calls[1].target) \notin DOMAIN stateDir.files

\* C16: name generation gives up with IdentityExhausted after exactly
\* MAX_RETRIES candidates were found present, before the prompt and open; a
\* candidate found absent within the bound is the name attach goes on with.
C16_RetryBound ==
    req.kind = "attach" =>
        /\ attempts <= MAX_RETRIES
        /\ attempts = MAX_RETRIES <=> result = "IdentityExhausted"
        /\ result = "IdentityExhausted" =>
               /\ pc = "idle"
               /\ Invoked("reserve") \cup Invoked("prompt") \cup Invoked("open") = {}
        /\ Cardinality(Invoked("reserve")) <= 1
        /\ \A i \in Invoked("reserve") : calls[i].name = mapper_name
        /\ \A i \in Invoked("open") : calls[i].name = mapper_name
        /\ pc \in {"a_prompt", "a_open"} =>
               /\ Invoked("reserve") # {}
               /\ ~mapper_exists(mapper_name, dirs, mapperNs)

C16_Witness ==
    /\ AttachReturned
    /\ result = "IdentityExhausted"
    /\ attempts = MAX_RETRIES
    /\ \A u \in Uuids : mapper_exists(generate_mapper_name(u), dirs, mapperNs)

\* the options that switch nosuid and nodev off again
DisablingOptions == {<<"s", "u", "i", "d">>, <<"d", "e", "v">>}

\* C17: the option string given to mount starts with nosuid,nodev, then ro
\* when read-only was asked, then the caller's options, and none of the
\* caller's options switches nosuid or nodev off.
C17_ForcedFlagsNotOverridden ==
    \A i \in Invoked("mount") :
        LET tokens == split(calls[i].opts, ",") IN
        /\ Len(tokens) >= 2
        /\ tokens[1] = <<"n", "o", "s", "u", "i", "d">>
        /\ tokens[2] = <<"n", "o", "d", "e", "v">>
        /\ req.read_only => Len(tokens) >= 3 /\ tokens[3] = <<"r", "o">>
        /\ \A k \in 1..Len(tokens) : to_lowercase(tokens[k]) \notin DisablingOptions

\* C20: the passphrase is no longer held once open has returned: not in the
\* mount step, the rollback close or the persist step, nor after a failed open.
C20_ZeroizedAfterOpen ==
    pc \in {"a_mount", "a_rollback", "a_persist"} => password # "held"

\* the trimmed tokens of an option string that are not empty, in order
OptionTokens(o) ==
    LET parts == split(o, ",") IN
    SelectSeq([i \in 1..Len(parts) |-> trim(parts[i])], LAMBDA tok : tok # <<>>)
HasMetachar(tok) == \E j \in 1..Len(tok) : tok[j] \in SHELL_METACHARS

NameWellFormed(n) ==
    /\ n # <<>>
    /\ Len(n) <= 128
    /\ \A i \in 1..Len(n) : n[i] \in ALLOWED_MAPPER_CHARS
    /\ ~contains_char(n, "/")
    /\ ~contains_char(n, NUL)
    /\ ~contains(n, DotDot)

\* C19: each validation of a mapper name succeeds exactly on the names that
\* are well formed.
C19_NameValidationExact ==
    \A i \in 1..Len(calls) :
        calls[i].op \in {"luks_validate_mapper_name", "mapper_validate_mapper_name"} =>
            (calls[i].ok <=> NameWellFormed(calls[i].name))

\* C21: a request of a caller that is not root is refused with NotRoot in its
\* first step: no operation is invoked and the namespace, the mount table,
\* the directories and the state directory stay as they were.
C21_RootBeforeAnything ==
    [][(pc # "idle" /\ req.kind \in {"attach", "detach"} /\ ~req.root) =>
          /\ pc' = "idle"
          /\ result' = "NotRoot"
          /\ calls' = <<>>
          /\ UNCHANGED world]_vars

C21_Witness ==
    /\ AttachReturned
    /\ ~req.root
    /\ req.mkdir
    /\ result = "NotRoot"
    /\ calls = <<>>
    /\ req.mount_point \notin dirs

\* C22: an attach whose probe, open, mount and persist steps succeeded
\* returns success, and the state directory then has, under the mount point
\* as given with every '/' replaced by '_', the content <name>:<device>,
\* where <name> is luks- followed by the generated identifier, the name that
\* was given to open.
C22_EndToEndRecord ==
    /\ (AttachReturned /\ Succeeded("put") # {}) => result = "Ok"
    /\ (AttachReturned /\ result = "Ok") =>
           LET key == replace(req.mount_point, "/", "_") IN
           /\ Succeeded("probe") # {} /\ Succeeded("mount") # {} /\ Succeeded("put") # {}
           /\ stateDir.exists
           /\ key \in DOMAIN stateDir.files
           /\ stateDir.files[key].content = mapper_name \o <<":">> \o req.device
           /\ \E u \in Uuids : mapper_name = LUKS_PREFIX \o u
           /\ \E i \in Succeeded("open") : calls[i].name = mapper_name

C22_Witness ==
    /\ AttachReturned
    /\ result = "Ok"
    /\ req.mount_point = MntLink
    /\ <<"_", "m", "n", "t", "_", "l", "i", "n", "k">> \in DOMAIN stateDir.files

\* C23: detach invokes unmount only with a resolved mapper name that the
\* name validation of close accepts.
C23_NameRejectedBeforeUnmount ==
    (req.kind = "detach" /\ Invoked("umount") # {}) =>
        luks_validate_mapper_name(mapper_name).ok

\* the entries of the mount table that the fallback may answer with
Discoverable(m, table) ==
    {i \in 1..Len(table) :
        /\ canonicalize(table[i].target) = canonicalize(m)
        /\ \E n \in {SubSeq(table[i].source, Len(DEV_MAPPER_PREFIX) + 1,
                             Len(table[i].source))} :
               /\ table[i].source = DEV_MAPPER_PREFIX \o n
               /\ starts_with(n, LUKS_PREFIX)
               /\ ~contains_char(n, "/")
               /\ ~contains_char(n, NUL)}

\* C24: the fallback answers None when no entry of the mount table is on the
\* mount point, both canonical, with a source /dev/mapper/<n>, <n> starting
\* with luks- and free of '/' and NUL; otherwise it answers the <n> of the
\* first such entry in the order of the table.
C24_FallbackDiscovery ==
    (req.kind = "gateway" /\ Invoked("find") # {}) =>
        LET found == Discoverable(mount_point, mountTable)
            first == CHOOSE i \in found : \A j \in found : i <= j
        IN  \A c \in Invoked("find") :
                IF found = {} THEN calls[c].name = <<>>
                ELSE DEV_MAPPER_PREFIX \o calls[c].name = mountTable[first].source

C24_Witness ==
    /\ req.kind = "gateway"
    /\ Invoked("find") # {}
    /\ Cardinality(Discoverable(mount_point, mountTable)) = 2
    /\ mountTable[1].source # mountTable[2].source
    /\ mountTable[1].target # mountTable[2].target
    /\ \A c \in Invoked("find") :
           DEV_MAPPER_PREFIX \o calls[c].name = mountTable[1].source

\* C25: a put or a remove on one mount point leaves what get returns for
\* every other mount point as it was.
C25_RecordsIndependent ==
    [][\A m1 \in StoreMountPoints : \A m2 \in StoreMountPoints \ {m1} :
          (/\ pc = "store"
           /\ Len(calls') = Len(calls) + 1
           /\ calls'[Len(calls')].op \in {"put", "remove"}
           /\ calls'[Len(calls')].target = m1) =>
              get_mount_mapping(stateDir', m2, "ok") = get_mount_mapping(stateDir, m2, "ok")]_vars

\* C26: every close that a detach invokes is on the mapper whose device was
\* the source of the filesystem that this detach unmounted.
C26_ClosesWhatItUnmounted ==
    req.kind = "detach" =>
        \A i \in Invoked("close") : \E j \in Succeeded("umount") :
            j < i /\ calls[j].path = get_mapper_path(calls[i].name)

NameErrors == {"NameInvalid", "NameNotOwned"}

\* C27: once attach has reserved a generated name, both validations accept
\* it and no later step stops on it: attach does not return a name error,
\* open is invoked after the prompt, the rollback invokes close, and put
\* does not fail on the name.
C27_GeneratedNameAccepted ==
    (req.kind = "attach" /\ Invoked("reserve") # {}) =>
        /\ luks_validate_mapper_name(mapper_name).ok
        /\ mapper_validate_mapper_name(mapper_name).ok
        /\ result \notin NameErrors
        /\ \A i \in Invoked("put") : calls[i].err \notin NameErrors
        /\ (AttachReturned /\ Succeeded("prompt") # {}) => Invoked("open") # {}
        /\ (AttachReturned /\ MountStepFailed) => Invoked("close") # {}

C27_Witness ==
    /\ AttachReturned
    /\ MountStepFailed
    /\ \E i \in Invoked("close") : \E u \in Uuids :
           /\ calls[i].name = generate_mapper_name(u)
           /\ \E j \in Invoked("reserve") : calls[j].name = calls[i].name

\* C28: while the mount point of a detach is not in the mount table, no step
\* of the detach invokes an operation, reads or removes a record or changes
\* anything, and the detach does not return success.
C28_NotMountedTouchesNothing ==
    [][(/\ req.kind = "detach"
        /\ pc # "idle"
        /\ Succeeded("umount") = {}
        /\ ~is_mounted(canonicalize(req.mount_point), mountTable)) =>
          /\ calls' = <<>>
          /\ UNCHANGED world
          /\ pc' = "idle" => result' # "Ok"]_vars

C28_Witness ==
    /\ DetachReturned
    /\ result = "NotMounted"
    /\ calls = <<>>
    /\ get_mount_mapping(stateDir, mount_point, "ok").ok
    /\ get_mount_mapping(stateDir, mount_point, "ok").v.some
    /\ get_mount_mapping(stateDir, mount_point, "ok").v.v.name \in mapperNs

====
